---- MODULE Spec2Model ----
(***************************************************************************)
(* Model of the corpus pipeline: the interactive configurator              *)
(* (src/pipeline_config_system.py) and the dynamic ETL run                 *)
(* (src/etl_classes/dynamic_etl.py).                                       *)
(*                                                                         *)
(* Four specifications share the variables below:                          *)
(*   SpecConfig  the configurator, one action per line read from the user  *)
(*   SpecFilter  the Paragraph Filter Stage applied to one document        *)
(*   SpecText    the Text Transform Stage applied to one paragraph list    *)
(*   SpecETL     a whole run: extract, transform, load                     *)
(* A specification leaves the variables of the others at Null.             *)
(***************************************************************************)
EXTENDS Integers, Sequences, FiniteSets, TLC

VARIABLES
    \* ---- configurator ----
    pc,                     \* where configure_pipeline_and_flags stands
    use_system,             \* argument use_system
    chosen_pipeline,        \* what ask_for_pipeline returned
    default_flags,          \* argument default_flags (the caller's FlagContainer)
    group,                  \* which configure_from_flags call runs: "text" / "para"
    flag_dict,              \* the flag_dict of the running configure_from_flags
    key_idx,                \* position of its for loop in the dict's keys
    text_flags_json_object, \* the dict returned by the first configure_from_flags
    asked,                  \* every prompt shown by input(), in order
    invalid,                \* number of unrecognized tokens entered so far
    line,                   \* the line input() returned last
    answers,                \* the (flag, value) pairs configure_flag returned, in order
    ret,                    \* the returned (PipelineType, FlagContainer), and
                            \* which object the FlagContainer is
    \* ---- stages applied to one input ----
    arg,                    \* the arguments of the stage call
    out,                    \* <<>> before the call returns, then <<what it returned>>
    \* ---- ETL run ----
    epc,                    \* where _execute_etl stands
    sources,                \* the files of data_dir
    flags,                  \* argument flags
    stopwords_file,         \* whether stopwords.json can be opened
    stopwords_opened,       \* how often the run has opened stopwords.json
    extracted_data,         \* the (document, filename) pairs extracted so far
    corpora_total,          \* the dict _transform builds
    dest_file               \* the output artifact at dest_dir

cfg_vars == <<pc, use_system, chosen_pipeline, default_flags, group, flag_dict, key_idx,
              text_flags_json_object, asked, invalid, line, answers, ret>>
fn_vars  == <<arg, out>>
etl_vars == <<epc, sources, flags, stopwords_file, stopwords_opened, extracted_data,
              corpora_total, dest_file>>
vars     == <<cfg_vars, fn_vars, etl_vars>>

Null == "null"

\* a dict or tuple variable of the configurator that holds nothing yet
Unset == <<>>

(***************************************************************************)
(* Bounds of the model.                                                    *)
(***************************************************************************)
MaxInvalid == 1     \* unrecognized tokens entered in one configurator session
MaxParas   == 4     \* paragraphs of a document given to the Filter Stage
MaxTextParas == 2   \* paragraphs given to the Text Transform Stage
MaxDocs    == 3     \* source files of one run

(***************************************************************************)
(* Flag schema (data_classes/flag.py).                                     *)
(***************************************************************************)
\* The attributes of ParagraphFlags, in the order __dict__ lists them.
ParagraphFlagKeys ==
    <<"remove_title_page", "remove_bibliography", "remove_headings",
      "remove_tables_and_figures">>

\* The attributes of TextFlags, in the order __dict__ lists them: the flag walk
\* reaches apply_lemmatization with apply_stemming already decided.
TextFlagKeys ==
    <<"remove_stop_words", "apply_stemming", "apply_lemmatization",
      "remove_punctuation">>

Range(s) == {s[i] : i \in 1..Len(s)}

\* ParagraphFlags(**kw): plain data, one boolean per switch.
ParagraphFlags(kw) ==
    [remove_title_page         |-> kw["remove_title_page"],
     remove_bibliography       |-> kw["remove_bibliography"],
     remove_headings           |-> kw["remove_headings"],
     remove_tables_and_figures |-> kw["remove_tables_and_figures"]]

\* TextFlags(**kw): plain data, one boolean per switch.
TextFlags(kw) ==
    [remove_stop_words   |-> kw["remove_stop_words"],
     apply_stemming      |-> kw["apply_stemming"],
     apply_lemmatization |-> kw["apply_lemmatization"],
     remove_punctuation  |-> kw["remove_punctuation"]]

\* FlagContainer(paragraph_flags, text_flags)
FlagContainer(paragraph_flags, text_flags) ==
    [paragraph_flags |-> paragraph_flags, text_flags |-> text_flags]

AllParagraphFlags == [Range(ParagraphFlagKeys) -> BOOLEAN]
AllTextFlags      == [Range(TextFlagKeys) -> BOOLEAN]

\* PipelineType
PipelineType == {"DEFAULT_DYNAMIC", "CUSTOM_DYNAMIC", "DEMO"}

(***************************************************************************)
(* Dictionaries: a Python dict is its items in insertion order.            *)
(***************************************************************************)
\* json.loads(json.dumps(obj.__dict__)): a fresh dict with obj's attributes in order
DictOf(obj, keys) == [i \in 1..Len(keys) |-> <<keys[i], obj[keys[i]]>>]

\* flag_dict[key]
Get(d, key) == d[CHOOSE i \in 1..Len(d) : d[i][1] = key][2]

\* the answer not stored
Put_nothing(d, i, value) == d

\* flag_dict[key] = value, for the key at position i
Put(d, i, value) == [d EXCEPT ![i] = <<d[i][1], value>>]

(***************************************************************************)
(* Interactive configurator (src/pipeline_config_system.py).  The program  *)
(* blocks in input(); an action is one line entered by the user together   *)
(* with everything the code does until it blocks again or returns.         *)
(***************************************************************************)
\* The lines a user may enter.
Tokens == {"1", "2", "3", "y", "n", "Y", "N", "x"}

\* a comparison that forgets to fold the case
lower_case_sensitive(t) == t

\* str.lower() on the tokens
lower(t) == CASE t = "Y" -> "y" [] t = "N" -> "n" [] OTHER -> t

\* ask_for_pipeline, line 18: the prompt of the pipeline choice
PipelinePrompt == <<"Pipeline: ">>

\* the special case of line 60 left out
SkipsQuestion_never(d, i) == FALSE

\* the special case of line 60 reading the caller's default instead of the dict
SkipsQuestion_by_default(d, i) ==
    d[i][1] = "apply_lemmatization" /\ default_flags.text_flags.apply_stemming

\* configure_from_flags, line 60: this key is decided without a question
SkipsQuestion(d, i) ==
    d[i][1] = "apply_lemmatization" /\ Get(d, "apply_stemming")

\* The for loop of configure_from_flags, run from key position i until it calls
\* configure_flag (and blocks there) or runs off the end of the dict.
RECURSIVE configure_from_flags(_, _)
configure_from_flags(d, i) ==
    IF i > Len(d)
    THEN [flag_dict |-> d, key_idx |-> i]
    ELSE IF SkipsQuestion(d, i)
         THEN configure_from_flags(Put(d, i, FALSE), i + 1)
         ELSE [flag_dict |-> d, key_idx |-> i]

\* configure_from_flags, lines 63-65: the question shown for a key (the words of
\* the key between "Do you want to " and "?")
specific_question(key) == <<"Do you want to ", key, "?">>

\* configure_dynamic_etl, lines 91-93: dicts back to classes
UpdatedFlags(text_obj, para_obj) ==
    FlagContainer(ParagraphFlags([k \in Range(ParagraphFlagKeys) |-> Get(para_obj, k)]),
                  TextFlags([k \in Range(TextFlagKeys) |-> Get(text_obj, k)]))

\* Control state of the configurator: blocked in configure_flag, or returned.
Blocked(grp, w, text_obj) ==
    [pc |-> "configure_flag", group |-> grp, flag_dict |-> w.flag_dict,
     key_idx |-> w.key_idx, text_flags_json_object |-> text_obj, ret |-> Unset,
     prompt |-> <<specific_question(w.flag_dict[w.key_idx][1])>>]

\* instance tells which object fl is: "default_flags", the caller's own, or
\* "new", one constructed by the call
Returned(chosen, fl, instance) ==
    [pc |-> "returned", group |-> Null, flag_dict |-> Unset, key_idx |-> 0,
     text_flags_json_object |-> Unset, ret |-> <<chosen, fl, instance>>,
     prompt |-> <<>>]

\* configure_dynamic_etl, resumed in the walk of group grp at key position i of
\* dict d: the text flags are walked first, then the paragraph flags, then the
\* container is built.
configure_dynamic_etl(chosen, grp, d, i, text_obj) ==
    LET w == configure_from_flags(d, i)
    IN  IF w.key_idx <= Len(w.flag_dict)
        THEN Blocked(grp, w, text_obj)
        ELSE IF grp = "text"
             THEN LET p == configure_from_flags(
                               DictOf(default_flags.paragraph_flags, ParagraphFlagKeys), 1)
                  IN  IF p.key_idx <= Len(p.flag_dict)
                      THEN Blocked("para", p, w.flag_dict)
                      ELSE Returned(chosen, UpdatedFlags(w.flag_dict, p.flag_dict), "new")
             ELSE Returned(chosen, UpdatedFlags(text_obj, w.flag_dict), "new")

\* the walks writing to the __dict__ of the caller's flag objects themselves
CallerFlags_dict_shared(defaults, c) ==
    IF c.pc = "returned"
    THEN c.ret[2]
    ELSE IF c.group = "text"
         THEN FlagContainer(defaults.paragraph_flags,
                            TextFlags([k \in Range(TextFlagKeys) |->
                                          Get(c.flag_dict, k)]))
         ELSE UpdatedFlags(c.text_flags_json_object, c.flag_dict)

\* configure_dynamic_etl, lines 83-84 and 86-87: the caller's FlagContainer when
\* the configurator has reached control state c.  The walks write to dicts
\* that json.loads(json.dumps(...)) made, so the caller's objects stay as
\* they are.
CallerFlags(defaults, c) == defaults

\* The configurator moves to control state c.
Goto(c) ==
    /\ pc' = c.pc
    /\ default_flags' = CallerFlags(default_flags, c)
    /\ group' = c.group
    /\ flag_dict' = c.flag_dict
    /\ key_idx' = c.key_idx
    /\ text_flags_json_object' = c.text_flags_json_object
    /\ ret' = c.ret
    /\ asked' = asked \o c.prompt

\* a line that is no valid answer taken for the default pipeline
PipelineOf_unknown_is_default(tok) ==
    CASE tok = "2" -> "CUSTOM_DYNAMIC"
      [] tok = "3" -> "DEMO"
      [] OTHER     -> "DEFAULT_DYNAMIC"

\* ask_for_pipeline, lines 18-27: the pipeline a line selects, Null when the
\* line is no valid answer
PipelineOf(tok) ==
    CASE tok = "1" -> "DEFAULT_DYNAMIC"
      [] tok = "2" -> "CUSTOM_DYNAMIC"
      [] tok = "3" -> "DEMO"
      [] OTHER     -> Null

\* configure_flag, lines 42-45: the boolean a line gives, as a one-element
\* sequence; the empty sequence when the line is no valid answer
AnswerOf(tok) ==
    CASE lower(tok) = "y" -> <<TRUE>>
      [] lower(tok) = "n" -> <<FALSE>>
      [] OTHER            -> <<>>

\* line 111 without its DEMO alternative
NeedsNoConfiguration_default_only(chosen) ==
    chosen = "DEFAULT_DYNAMIC"

\* configure_pipeline_and_flags, line 111
NeedsNoConfiguration(chosen) ==
    chosen = "DEFAULT_DYNAMIC" \/ chosen = "DEMO"

\* configure_pipeline_and_flags is called (lines 107-109).
configure_pipeline_and_flags ==
    /\ pc = "call"
    /\ IF ~use_system
       THEN Goto(Returned("DEFAULT_DYNAMIC", default_flags, "default_flags"))
       ELSE /\ pc' = "ask_for_pipeline"
            /\ asked' = Append(asked, PipelinePrompt)
            /\ UNCHANGED <<group, flag_dict, key_idx, text_flags_json_object, ret,
                           default_flags>>
    /\ UNCHANGED <<use_system, chosen_pipeline, invalid, line, answers,
                   fn_vars, etl_vars>>

\* ask_for_pipeline reads a line (lines 14-27), and configure_pipeline_and_flags
\* goes on with the choice (lines 109-114).
ask_for_pipeline(tok) ==
    /\ pc = "ask_for_pipeline"
    /\ line' = tok
    /\ LET chosen == PipelineOf(tok)
       IN  IF chosen = Null
           THEN /\ invalid < MaxInvalid
                /\ invalid' = invalid + 1
                /\ asked' = Append(asked, PipelinePrompt)
                /\ UNCHANGED <<pc, chosen_pipeline, group, flag_dict, key_idx,
                               text_flags_json_object, ret, default_flags>>
           ELSE /\ chosen_pipeline' = chosen
                /\ UNCHANGED invalid
                /\ IF NeedsNoConfiguration(chosen)
                   THEN Goto(Returned(chosen, default_flags, "default_flags"))
                   ELSE Goto(configure_dynamic_etl(
                                 chosen, "text",
                                 DictOf(default_flags.text_flags, TextFlagKeys), 1, Unset))
    /\ UNCHANGED <<use_system, answers, fn_vars, etl_vars>>

\* configure_flag reads a line (lines 40-45); on an answer configure_from_flags
\* stores it (line 66) and the walk goes on.
configure_flag(tok) ==
    /\ pc = "configure_flag"
    /\ line' = tok
    /\ LET answer == AnswerOf(tok)
       IN  IF answer = <<>>
           THEN /\ invalid < MaxInvalid
                /\ invalid' = invalid + 1
                /\ asked' = Append(asked, specific_question(flag_dict[key_idx][1]))
                /\ UNCHANGED <<pc, group, flag_dict, key_idx,
                               text_flags_json_object, ret, default_flags, answers>>
           ELSE /\ UNCHANGED invalid
                /\ answers' = Append(answers, <<flag_dict[key_idx][1], answer[1]>>)
                /\ Goto(configure_dynamic_etl(
                            chosen_pipeline, group, Put(flag_dict, key_idx, answer[1]),
                            key_idx + 1, text_flags_json_object))
    /\ UNCHANGED <<use_system, chosen_pipeline, fn_vars, etl_vars>>

\* The FlagContainers a caller passes as defaults.
DefaultFlagChoices ==
    {FlagContainer(ParagraphFlags(p), TextFlags(t)) :
        p \in {q \in AllParagraphFlags :
                  q["remove_bibliography"] = q["remove_title_page"]
                  /\ q["remove_tables_and_figures"] = q["remove_headings"]},
        t \in AllTextFlags}

InitConfig ==
    /\ pc = "call"
    /\ use_system \in BOOLEAN
    /\ chosen_pipeline = Null
    /\ default_flags \in DefaultFlagChoices
    /\ group = Null /\ flag_dict = Unset /\ key_idx = 0
    /\ text_flags_json_object = Unset
    /\ asked = <<>> /\ invalid = 0 /\ line = Null /\ answers = <<>> /\ ret = Unset
    /\ arg = Null /\ out = Null
    /\ epc = Null /\ sources = Null /\ flags = Null /\ stopwords_file = Null
    /\ stopwords_opened = Null
    /\ extracted_data = Null /\ corpora_total = Null /\ dest_file = Null

NextConfig ==
    \/ configure_pipeline_and_flags
    \/ \E tok \in Tokens : ask_for_pipeline(tok)
    \/ \E tok \in Tokens : configure_flag(tok)

SpecConfig == InitConfig /\ [][NextConfig]_vars

\* The user at the prompts: whenever the program waits in input(), a line it
\* accepts is entered at some time.  The call itself runs without waiting.
ValidPipelineLine == \E tok \in {"1", "2", "3"} : ask_for_pipeline(tok)

ValidFlagLine == \E tok \in {"y", "n", "Y", "N"} : configure_flag(tok)

\* the defaults with every switch off, and with every switch on
UniformDefaults ==
    {d \in DefaultFlagChoices :
        \E b \in BOOLEAN :
            /\ \A k \in Range(ParagraphFlagKeys) : d.paragraph_flags[k] = b
            /\ \A k \in Range(TextFlagKeys) : d.text_flags[k] = b}

InitConfigFair == InitConfig /\ default_flags \in UniformDefaults

SpecConfigFair ==
    /\ InitConfigFair
    /\ [][NextConfig]_vars
    /\ WF_vars(configure_pipeline_and_flags)
    /\ WF_vars(ValidPipelineLine)
    /\ WF_vars(ValidFlagLine)

(***************************************************************************)
(* Paragraphs.  A text is the sequence of its characters; a paragraph has  *)
(* a text and the name of its style.                                       *)
(***************************************************************************)
Paragraph(text, style) == [text |-> text, style |-> style]

\* str.split() and str.strip() cut at whitespace
IsSpace(c) == c \in {" ", "\n"}

\* text.split(): the maximal runs of non-whitespace characters, in order
RECURSIVE split_from(_, _, _, _)
split_from(text, i, word, words) ==
    IF i > Len(text)
    THEN IF word = <<>> THEN words ELSE Append(words, word)
    ELSE IF IsSpace(text[i])
         THEN split_from(text, i + 1, <<>>,
                         IF word = <<>> THEN words ELSE Append(words, word))
         ELSE split_from(text, i + 1, Append(word, text[i]), words)

split(text) == split_from(text, 1, <<>>, <<>>)

\* text.strip(): the text without its leading and trailing whitespace
strip(text) ==
    LET solid == {i \in 1..Len(text) : ~IsSpace(text[i])}
    IN  IF solid = {}
        THEN <<>>
        ELSE SubSeq(text,
                    CHOOSE i \in solid : \A j \in solid : i <= j,
                    CHOOSE i \in solid : \A j \in solid : j <= i)

\* " ".join(words)
RECURSIVE join(_)
join(words) ==
    IF words = <<>> THEN <<>>
    ELSE IF Len(words) = 1 THEN words[1]
    ELSE words[1] \o <<" ">> \o join(Tail(words))

\* The elements of s at the positions in idx, in order.
RECURSIVE Pick(_, _, _)
Pick(s, idx, i) ==
    IF i > Len(s) THEN <<>>
    ELSE (IF i \in idx THEN <<s[i]>> ELSE <<>>) \o Pick(s, idx, i + 1)

(***************************************************************************)
(* ParagraphModifier (modifiers/paragraph_modifier.py): the four removal   *)
(* rules.  Each is a pure function from a paragraph sequence to the pair   *)
(* (kept, removed); what a rule removes is given by the positions it       *)
(* matches.                                                                *)
(***************************************************************************)
HeadingStyles        == {"Heading 1"}
BibliographyStyles   == {"Bibliography"}
TableFigureStyles    == {"Caption"}

\* the leading title-page block: what precedes the first heading
TitlePositions(ps) ==
    LET heads == {i \in 1..Len(ps) : ps[i].style \in HeadingStyles}
    IN  IF heads = {} THEN {}
        ELSE {i \in 1..Len(ps) : \A h \in heads : i < h}

\* the trailing bibliography block
BibliographyPositions(ps) ==
    {i \in 1..Len(ps) : \A j \in i..Len(ps) : ps[j].style \in BibliographyStyles}

\* the paragraphs whose style marks them as headings
HeadingPositions(ps) ==
    {i \in 1..Len(ps) : ps[i].style \in HeadingStyles}

\* the paragraphs that are table or figure captions or contents
TableFigurePositions(ps) ==
    {i \in 1..Len(ps) : ps[i].style \in TableFigureStyles}

Removal(ps, idx) == <<Pick(ps, (1..Len(ps)) \ idx, 1), Pick(ps, idx, 1)>>

remove_title(ps)          == Removal(ps, TitlePositions(ps))
remove_bibliography(ps)   == Removal(ps, BibliographyPositions(ps))
remove_headings(ps)       == Removal(ps, HeadingPositions(ps))
remove_tables_figures(ps) == Removal(ps, TableFigurePositions(ps))

(***************************************************************************)
(* Paragraph Filter Stage: DynamicETL.__remove_paragraphs_from_doc.        *)
(* The state of the call is its two locals and the rules called so far.    *)
(***************************************************************************)
\* removed_paragraphs assigned instead of extended
RunRule_overwrite(st, name, result) ==
    [doc_paragraphs     |-> result[1],
     removed_paragraphs |-> result[2],
     calls              |-> Append(st.calls, name)]

\* lines 84-86, 90-92, 95-97, 100-102: call a rule on doc_paragraphs, keep what it
\* keeps, extend removed_paragraphs by what it removed
RunRule(st, name, result) ==
    [doc_paragraphs     |-> result[1],
     removed_paragraphs |-> st.removed_paragraphs \o result[2],
     calls              |-> Append(st.calls, name)]

\* the headings rule run whether or not its flag is set
remove_paragraphs_from_doc_headings_always(doc_paragraphs, paragraph_flags) ==
    LET s0 == [doc_paragraphs |-> doc_paragraphs, removed_paragraphs |-> <<>>,
               calls |-> <<>>]
        s1 == IF paragraph_flags.remove_title_page
              THEN RunRule(s0, "remove_title", remove_title(s0.doc_paragraphs))
              ELSE s0
        s2 == IF paragraph_flags.remove_bibliography
              THEN RunRule(s1, "remove_bibliography",
                           remove_bibliography(s1.doc_paragraphs))
              ELSE s1
        s3 == RunRule(s2, "remove_headings", remove_headings(s2.doc_paragraphs))
        s4 == IF paragraph_flags.remove_tables_and_figures
              THEN RunRule(s3, "remove_tables_figures",
                           remove_tables_figures(s3.doc_paragraphs))
              ELSE s3
    IN  s4

\* the bibliography rule given the sequence the call received, not what the
\* title rule kept
remove_paragraphs_from_doc_bibliography_on_original(doc_paragraphs, paragraph_flags) ==
    LET s0 == [doc_paragraphs |-> doc_paragraphs, removed_paragraphs |-> <<>>,
               calls |-> <<>>]
        s1 == IF paragraph_flags.remove_title_page
              THEN RunRule(s0, "remove_title", remove_title(s0.doc_paragraphs))
              ELSE s0
        s2 == IF paragraph_flags.remove_bibliography
              THEN RunRule(s1, "remove_bibliography",
                           remove_bibliography(s0.doc_paragraphs))
              ELSE s1
        s3 == IF paragraph_flags.remove_headings
              THEN RunRule(s2, "remove_headings", remove_headings(s2.doc_paragraphs))
              ELSE s2
        s4 == IF paragraph_flags.remove_tables_and_figures
              THEN RunRule(s3, "remove_tables_figures",
                           remove_tables_figures(s3.doc_paragraphs))
              ELSE s3
    IN  s4

remove_paragraphs_from_doc(doc_paragraphs, paragraph_flags) ==
    LET s0 == [doc_paragraphs |-> doc_paragraphs, removed_paragraphs |-> <<>>,
               calls |-> <<>>]
        s1 == IF paragraph_flags.remove_title_page
              THEN RunRule(s0, "remove_title", remove_title(s0.doc_paragraphs))
              ELSE s0
        s2 == IF paragraph_flags.remove_bibliography
              THEN RunRule(s1, "remove_bibliography",
                           remove_bibliography(s1.doc_paragraphs))
              ELSE s1
        s3 == IF paragraph_flags.remove_headings
              THEN RunRule(s2, "remove_headings", remove_headings(s2.doc_paragraphs))
              ELSE s2
        s4 == IF paragraph_flags.remove_tables_and_figures
              THEN RunRule(s3, "remove_tables_figures",
                           remove_tables_figures(s3.doc_paragraphs))
              ELSE s3
    IN  s4

(***************************************************************************)
(* SpecFilter: the Filter Stage called on one document.                    *)
(***************************************************************************)
Styles == {"Normal", "Heading 1", "Bibliography", "Caption"}

FilterTexts == {<<"a", " ", "a", " ", "a">>, <<"a", "s">>}

FilterParagraphs == {Paragraph(t, st) : t \in FilterTexts, st \in Styles}

SeqsUpTo(S, n) == UNION {[1..k -> S] : k \in 0..n}

OtherVarsNull ==
    /\ pc = Null /\ use_system = Null /\ chosen_pipeline = Null
    /\ default_flags = Null /\ group = Null /\ flag_dict = Null /\ key_idx = Null
    /\ text_flags_json_object = Null /\ asked = Null /\ invalid = Null
    /\ line = Null /\ answers = Null /\ ret = Null

EtlVarsNull ==
    /\ epc = Null /\ sources = Null /\ flags = Null /\ stopwords_file = Null
    /\ stopwords_opened = Null
    /\ extracted_data = Null /\ corpora_total = Null /\ dest_file = Null

InitFilter ==
    /\ arg \in [doc_paragraphs  : SeqsUpTo(FilterParagraphs, MaxParas),
                paragraph_flags : {ParagraphFlags(p) : p \in AllParagraphFlags}]
    /\ out = <<>>
    /\ OtherVarsNull
    /\ EtlVarsNull

CallFilter ==
    /\ out = <<>>
    /\ out' = <<remove_paragraphs_from_doc(arg.doc_paragraphs, arg.paragraph_flags)>>
    /\ UNCHANGED <<arg, cfg_vars, etl_vars>>

NextFilter == CallFilter

SpecFilter == InitFilter /\ [][NextFilter]_vars

(***************************************************************************)
(* TextModifier (modifiers/text_modifier.py): the four text transforms,    *)
(* pure functions from text to text.  Stemming and lemmatization stand for *)
(* the language tools behind them with a one-rule stemmer and a one-entry  *)
(* lemma dictionary.                                                       *)
(***************************************************************************)
Punctuation == {",", "."}

\* the stop-word list of stopwords.json
StopWordList == {<<"d", "e">>}

MapSeq(Op(_), s) == [i \in 1..Len(s) |-> Op(s[i])]

\* the words of the text that are no stop words, joined by single spaces
remove_stop_words(text, stopwords) ==
    join(SelectSeq(split(text), LAMBDA w : w \notin stopwords))

\* the dictionary form of a word
Lemma(w) == IF w = <<"a", "s">> THEN <<"e">> ELSE w

\* every word replaced by its dictionary form
apply_lemmatization(text) == join(MapSeq(Lemma, split(text)))

\* the stem of a word: a final "s" cut off
Stem(w) == IF Len(w) > 1 /\ w[Len(w)] = "s" THEN SubSeq(w, 1, Len(w) - 1) ELSE w

\* every word replaced by its stem
apply_stemming(text) == join(MapSeq(Stem, split(text)))

\* the text without its punctuation characters
remove_punctuation(text) == SelectSeq(text, LAMBDA c : c \notin Punctuation)

(***************************************************************************)
(* Text Transform Stage: DynamicETL.__transform_paragraphs_from_doc.       *)
(***************************************************************************)
\* line 130: a paragraph needs this many whitespace-separated words
MinWords == 3

\* a degeneracy test that lets two-word paragraphs through
IsDegenerate_two_words(paragraph) ==
    \/ paragraph.text = <<>> \/ paragraph.text = <<" ">> \/ paragraph.text = <<"\n">>
    \/ Len(split(paragraph.text)) < MinWords - 1

\* lines 126-131: the paragraph is skipped
IsDegenerate(paragraph) ==
    \/ paragraph.text = <<>> \/ paragraph.text = <<" ">> \/ paragraph.text = <<"\n">>
    \/ Len(split(paragraph.text)) < MinWords

\* the record started from the raw text instead of the stripped text
NewParagraphObj_unstripped(paragraph) ==
    [text |-> paragraph.text, style |-> paragraph.style]

\* line 133: the record of a paragraph before any transform
NewParagraphObj(paragraph) ==
    [text |-> strip(paragraph.text), style |-> paragraph.style]

\* one transform of lines 135-149: the line it prints, and the record's text
\* replaced by what the transform returned
RunTransform(st, message, text) ==
    [obj     |-> [st.obj EXCEPT !.text = text],
     printed |-> Append(st.printed, message)]

\* stemming before lemmatization
transform_paragraph_stemming_first(paragraph, text_flags, stopwords) ==
    LET o0 == [obj |-> NewParagraphObj(paragraph), printed |-> <<>>]
        o1 == IF text_flags.remove_stop_words
              THEN RunTransform(o0, "removing stop words",
                                remove_stop_words(o0.obj.text, stopwords))
              ELSE o0
        o2 == IF text_flags.apply_stemming
              THEN RunTransform(o1, "applying stemming",
                                apply_stemming(o1.obj.text))
              ELSE o1
        o3 == IF text_flags.apply_lemmatization
              THEN RunTransform(o2, "applying lemmatization",
                                apply_lemmatization(o2.obj.text))
              ELSE o2
        o4 == IF text_flags.remove_punctuation
              THEN RunTransform(o3, "removing punctuation",
                                remove_punctuation(o3.obj.text))
              ELSE o3
    IN  o4

\* lines 133-149: the record of one paragraph, the enabled transforms applied in
\* the order stop words, lemmatization, stemming, punctuation, and the lines
\* printed on the way
transform_paragraph(paragraph, text_flags, stopwords) ==
    LET o0 == [obj |-> NewParagraphObj(paragraph), printed |-> <<>>]
        o1 == IF text_flags.remove_stop_words
              THEN RunTransform(o0, "removing stop words",
                                remove_stop_words(o0.obj.text, stopwords))
              ELSE o0
        o2 == IF text_flags.apply_lemmatization
              THEN RunTransform(o1, "applying lemmatization",
                                apply_lemmatization(o1.obj.text))
              ELSE o1
        o3 == IF text_flags.apply_stemming
              THEN RunTransform(o2, "applying stemming",
                                apply_stemming(o2.obj.text))
              ELSE o2
        o4 == IF text_flags.remove_punctuation
              THEN RunTransform(o3, "removing punctuation",
                                remove_punctuation(o3.obj.text))
              ELSE o3
    IN  o4

\* lines 124-151: the loop over the paragraphs, from position i on; st holds
\* total_doc_corpora and, per appended record, the lines printed for it
RECURSIVE paragraphs_loop(_, _, _, _, _)
paragraphs_loop(doc_paragraphs, i, text_flags, stopwords, st) ==
    IF i > Len(doc_paragraphs)
    THEN st
    ELSE paragraphs_loop(
             doc_paragraphs, i + 1, text_flags, stopwords,
             IF IsDegenerate(doc_paragraphs[i])
             THEN st
             ELSE LET t == transform_paragraph(doc_paragraphs[i], text_flags,
                                               stopwords)
                  IN  [total_doc_corpora |-> Append(st.total_doc_corpora, t.obj),
                       printed |-> Append(st.printed, t.printed)])

\* a stop-word file that cannot be opened taken for an empty list
transform_paragraphs_from_doc_missing_list_ignored(doc_paragraphs, text_flags, stopwords_json) ==
    LET st == paragraphs_loop(doc_paragraphs, 1, text_flags,
                              IF text_flags.remove_stop_words
                              THEN stopwords_json.content ELSE {},
                              [total_doc_corpora |-> <<>>, printed |-> <<>>])
    IN  [raised |-> FALSE,
         total_doc_corpora |-> st.total_doc_corpora,
         printed |-> st.printed,
         opened |-> IF text_flags.remove_stop_words THEN 1 ELSE 0]

\* the stop-word file opened for every paragraph that is not skipped
transform_paragraphs_from_doc_opened_per_paragraph(doc_paragraphs, text_flags, stopwords_json) ==
    IF text_flags.remove_stop_words /\ ~stopwords_json.readable
    THEN [raised |-> TRUE, total_doc_corpora |-> <<>>, printed |-> <<>>,
          opened |-> 1]
    ELSE LET st == paragraphs_loop(doc_paragraphs, 1, text_flags,
                                   IF text_flags.remove_stop_words
                                   THEN stopwords_json.content ELSE {},
                                   [total_doc_corpora |-> <<>>, printed |-> <<>>])
         IN  [raised |-> FALSE,
              total_doc_corpora |-> st.total_doc_corpora,
              printed |-> st.printed,
              opened |-> IF text_flags.remove_stop_words
                         THEN Len(st.total_doc_corpora) ELSE 0]

\* The call of __transform_paragraphs_from_doc.  stopwords_json is the file
\* stopwords.json: whether open() succeeds, and the list it holds.  The result
\* tells whether the call raised, what it returned, what it printed for each
\* returned record, and how often it opened the file.
transform_paragraphs_from_doc(doc_paragraphs, text_flags, stopwords_json) ==
    IF text_flags.remove_stop_words /\ ~stopwords_json.readable
    THEN [raised |-> TRUE, total_doc_corpora |-> <<>>, printed |-> <<>>,
          opened |-> 1]
    ELSE LET st == paragraphs_loop(doc_paragraphs, 1, text_flags,
                                   IF text_flags.remove_stop_words
                                   THEN stopwords_json.content ELSE {},
                                   [total_doc_corpora |-> <<>>, printed |-> <<>>])
         IN  [raised |-> FALSE,
              total_doc_corpora |-> st.total_doc_corpora,
              printed |-> st.printed,
              opened |-> IF text_flags.remove_stop_words THEN 1 ELSE 0]

(***************************************************************************)
(* SpecText: the Text Transform Stage called on one paragraph sequence.    *)
(***************************************************************************)
TextChoices ==
    { <<>>, <<" ">>, <<"\n">>, <<" ", " ">>,
      <<"a">>, <<"a", " ", "a">>, <<" ", "a", " ", "a", " ">>,
      <<"a", " ", "a", " ", "a">>,
      <<" ", "a", " ", "a", " ", "a", "\n">>,
      <<"a", "\n", "a", "\n", "a", "s">>,
      <<"d", "e", " ", "a", " ", "a">>,
      <<"d", "e", "s", " ", "a", " ", "a">>,
      <<"d", "e", ",", " ", "a", " ", "a">>,
      <<"a", "s", ",", " ", "a", " ", "a">> }

TextParagraphs ==
    {Paragraph(t, "Normal") : t \in TextChoices}
    \cup {Paragraph(<<"a", " ", "a", " ", "a">>, "Heading 1"),
          Paragraph(<<"a", " ", "a">>, "Heading 1")}

StopwordFiles ==
    {[readable |-> TRUE, content |-> StopWordList],
     [readable |-> FALSE, content |-> {}]}

InitText ==
    /\ arg \in [doc_paragraphs : SeqsUpTo(TextParagraphs, MaxTextParas),
                text_flags     : {TextFlags(t) : t \in AllTextFlags},
                stopwords_json : StopwordFiles]
    /\ out = <<>>
    /\ OtherVarsNull
    /\ EtlVarsNull

CallTransform ==
    /\ out = <<>>
    /\ out' = <<transform_paragraphs_from_doc(arg.doc_paragraphs, arg.text_flags,
                                              arg.stopwords_json)>>
    /\ UNCHANGED <<arg, cfg_vars, etl_vars>>

NextText == CallTransform

SpecText == InitText /\ [][NextText]_vars

(***************************************************************************)
(* SpecETL: a run of DynamicETL._execute_etl.  Extraction handles one      *)
(* source file per step, transformation one document per step; an          *)
(* exception ends the run where it is raised, since nothing catches it.    *)
(***************************************************************************)
\* the files a data_dir may hold: a file that cannot be parsed, and three documents
SourceChoices ==
    { [parsable |-> FALSE, paragraphs |-> <<>>],
      [parsable |-> TRUE, paragraphs |-> <<>>],
      [parsable |-> TRUE,
       paragraphs |-> << Paragraph(<<"a", " ", "a">>, "Normal"),
                         Paragraph(<<" ", "a", " ", "a", " ", "a", "\n">>, "Normal") >>],
      [parsable |-> TRUE,
       paragraphs |-> << Paragraph(<<"a", "s", ",", " ", "a", " ", "a">>, "Normal"),
                         Paragraph(<<"a", " ", "a", " ", "a">>, "Heading 1"),
                         Paragraph(<<"d", "e", " ", "a", " ", "a">>, "Normal"),
                         Paragraph(<<"a", " ", "a", " ", "a">>, "Bibliography") >>] }

\* the name of the i-th file of data_dir
FileName(i) == <<"file", i>>

\* BaseETL._extract, one file: the (document, filename) pair of the next source
\* is added, or the file cannot be parsed and the exception leaves _execute_etl.
_extract ==
    /\ epc = "extract"
    /\ Len(extracted_data) < Len(sources)
    /\ LET i == Len(extracted_data) + 1
       IN  IF sources[i].parsable
           THEN /\ extracted_data' =
                       Append(extracted_data,
                              <<[paragraphs |-> sources[i].paragraphs], FileName(i)>>)
                /\ UNCHANGED epc
           ELSE /\ epc' = "extract_raised"
                /\ UNCHANGED extracted_data
    /\ UNCHANGED <<sources, flags, stopwords_file, stopwords_opened, corpora_total,
                   dest_file,
                   cfg_vars, fn_vars>>

\* an exception of _extract caught, the run going on with what was extracted
_transform_begin_after_error ==
    /\ epc \in {"extract", "extract_raised"}
    /\ epc = "extract" => Len(extracted_data) = Len(sources)
    /\ epc' = "transform"
    /\ corpora_total' = [config |-> flags, documents |-> <<>>]
    /\ UNCHANGED <<sources, flags, stopwords_file, stopwords_opened, extracted_data,
                   dest_file, cfg_vars, fn_vars>>

\* _execute_etl, lines 36-37, and _transform, lines 52-58: _extract has returned
\* every source, _transform starts corpora_total with the configuration.
_transform_begin ==
    /\ epc = "extract"
    /\ Len(extracted_data) = Len(sources)
    /\ epc' = "transform"
    /\ corpora_total' = [config |-> flags, documents |-> <<>>]
    /\ UNCHANGED <<sources, flags, stopwords_file, stopwords_opened, extracted_data,
                   dest_file, cfg_vars, fn_vars>>

\* current_doc_corpora kept across the iterations of the loop
ExtendDocuments_shared_corpora(documents, filename, corpora) ==
    Append(documents,
           [filename |-> filename,
            corpora  |-> (IF documents = <<>> THEN <<>>
                          ELSE documents[Len(documents)].corpora) \o corpora])

\* _transform, lines 60-61 and 64-65: the document's entry, appended
ExtendDocuments(documents, filename, corpora) ==
    Append(documents, [filename |-> filename, corpora |-> corpora])

\* _transform, lines 59-65: one iteration of the loop over the extracted pairs;
\* an exception of the Text Transform Stage leaves _transform and _execute_etl.
_transform_document ==
    /\ epc = "transform"
    /\ Len(corpora_total.documents) < Len(extracted_data)
    /\ LET pair == extracted_data[Len(corpora_total.documents) + 1]
           kept == remove_paragraphs_from_doc(pair[1].paragraphs,
                                              flags.paragraph_flags).doc_paragraphs
           res  == transform_paragraphs_from_doc(kept, flags.text_flags, stopwords_file)
       IN  /\ stopwords_opened' = stopwords_opened + res.opened
           /\ IF res.raised
              THEN /\ epc' = "transform_raised"
                   /\ UNCHANGED corpora_total
              ELSE /\ corpora_total' =
                          [corpora_total EXCEPT
                              !.documents = ExtendDocuments(@, pair[2],
                                                            res.total_doc_corpora)]
                   /\ UNCHANGED epc
    /\ UNCHANGED <<sources, flags, stopwords_file, extracted_data, dest_file,
                   cfg_vars, fn_vars>>

\* jsonpickle.encode(data, unpicklable=False): the JSON text of the data
encode(data) == [json |-> data]

\* the result written as soon as one document is transformed
_load_after_first_document ==
    /\ epc = "transform"
    /\ corpora_total.documents # <<>> \/ extracted_data = <<>>
    /\ dest_file' = Append(dest_file, encode(corpora_total))
    /\ epc' = "done"
    /\ UNCHANGED <<sources, flags, stopwords_file, stopwords_opened, extracted_data,
                   corpora_total, cfg_vars, fn_vars>>

\* _execute_etl, line 38, and _load, lines 167-169: _transform has returned, the
\* encoded result is written to the destination in one write.
_load ==
    /\ epc = "transform"
    /\ Len(corpora_total.documents) = Len(extracted_data)
    /\ dest_file' = Append(dest_file, encode(corpora_total))
    /\ epc' = "done"
    /\ UNCHANGED <<sources, flags, stopwords_file, stopwords_opened, extracted_data,
                   corpora_total, cfg_vars, fn_vars>>

InitETL ==
    /\ epc = "extract"
    /\ sources \in SeqsUpTo(SourceChoices, MaxDocs)
    /\ flags \in DefaultFlagChoices
    /\ stopwords_file \in StopwordFiles
    /\ stopwords_opened = 0
    /\ extracted_data = <<>>
    /\ corpora_total = [config |-> <<>>, documents |-> <<>>]
    /\ dest_file = <<>>
    /\ OtherVarsNull
    /\ arg = Null /\ out = Null

NextETL ==
    \/ _extract
    \/ _transform_begin
    \/ _transform_document
    \/ _load

SpecETL == InitETL /\ [][NextETL]_vars

(***************************************************************************)
(* SpecProgram: the two parts of the program side by side, a behaviour     *)
(* being either a call of the configurator or an ETL run.                  *)
(***************************************************************************)
InitProgram == InitConfig \/ InitETL

NextProgram == NextConfig \/ NextETL

SpecProgram == InitProgram /\ [][NextProgram]_vars

(***************************************************************************)
(* Properties of the configurator.                                         *)
(***************************************************************************)
ReturnedCustom == pc = "returned" /\ ret[1] = "CUSTOM_DYNAMIC"

LemmatizationQuestion == specific_question("apply_lemmatization")

KeyPos(d, key) == CHOOSE i \in 1..Len(d) : d[i][1] = key

\* the text-flag dict as far as the walk has filled it
TextDictOfWalk == IF group = "text" THEN flag_dict ELSE text_flags_json_object

\* the walk is blocked at a question that comes after the text flag `key`
WalkPassed(key) ==
    /\ pc = "configure_flag"
    /\ group = "para" \/ key_idx > KeyPos(flag_dict, key)

\* C1: the FlagContainer configure_dynamic_etl returns never has apply_stemming
\* and apply_lemmatization both true, whatever the defaults and the answers.
C1_MutualExclusion ==
    ReturnedCustom =>
        ~(ret[2].text_flags.apply_stemming /\ ret[2].text_flags.apply_lemmatization)

\* a custom container with stemming on, built from defaults that had both on
C1_Witness ==
    /\ ReturnedCustom
    /\ ret[2].text_flags.apply_stemming
    /\ default_flags.text_flags.apply_stemming
    /\ default_flags.text_flags.apply_lemmatization

\* C2: once the user has answered "y" to the apply_stemming question, the
\* apply_lemmatization question is never asked and apply_lemmatization is false,
\* in the dict and in the returned container; and it is the answer that decides:
\* after "n" the lemmatization question is asked, whatever the default was.
C2_StemmingYesSkipsLemmatization ==
    /\ (WalkPassed("apply_stemming") /\ Get(TextDictOfWalk, "apply_stemming")) =>
           /\ \A i \in 1..Len(asked) : asked[i] # LemmatizationQuestion
           /\ ~Get(TextDictOfWalk, "apply_lemmatization")
    /\ (ReturnedCustom /\ ret[2].text_flags.apply_stemming) =>
           /\ \A i \in 1..Len(asked) : asked[i] # LemmatizationQuestion
           /\ ~ret[2].text_flags.apply_lemmatization
    /\ (WalkPassed("apply_lemmatization") /\ ~Get(TextDictOfWalk, "apply_stemming")) =>
           \E i \in 1..Len(asked) : asked[i] = LemmatizationQuestion

\* stemming answered "y" against a default of "no", with lemmatization on by default
C2_Witness ==
    /\ ReturnedCustom
    /\ ret[2].text_flags.apply_stemming
    /\ ~default_flags.text_flags.apply_stemming
    /\ default_flags.text_flags.apply_lemmatization
    /\ ~ret[2].text_flags.apply_lemmatization

ConfigControl ==
    <<pc, chosen_pipeline, group, flag_dict, key_idx, text_flags_json_object, ret,
      default_flags>>

\* C8: at the pipeline prompt exactly "1", "2", "3" are accepted, at a flag
\* question exactly "y", "n", "Y", "N"; any other line shows the same prompt
\* again and leaves the control state, the dict being filled, the flags decided
\* so far and the defaults as they were; an accepted line moves on.
C8_InvalidTokenReprompts ==
    [][ /\ (pc = "ask_for_pipeline" /\ line' \notin {"1", "2", "3"}) =>
             /\ ConfigControl' = ConfigControl
             /\ asked' = Append(asked, PipelinePrompt)
        /\ (pc = "ask_for_pipeline" /\ line' \in {"1", "2", "3"}) =>
             /\ pc' # pc
             /\ asked' # Append(asked, PipelinePrompt)
        /\ (pc = "configure_flag" /\ line' \notin {"y", "n", "Y", "N"}) =>
             /\ ConfigControl' = ConfigControl
             /\ asked' = Append(asked, specific_question(flag_dict[key_idx][1]))
        /\ (pc = "configure_flag" /\ line' \in {"y", "n", "Y", "N"}) =>
             <<pc, group, key_idx>>' # <<pc, group, key_idx>>
      ]_vars

\* an unrecognized line was entered at a flag question after a flag was decided
C8_Witness ==
    /\ pc = "configure_flag"
    /\ invalid = 1
    /\ line = "3"
    /\ key_idx > 1
    /\ asked[Len(asked)] = asked[Len(asked) - 1]

\* C9: DEFAULT_DYNAMIC and DEMO return the caller's defaults with no flag
\* question asked; with use_system false nothing is prompted at all and
\* DEFAULT_DYNAMIC is returned; a flag question is only ever asked on the
\* CUSTOM_DYNAMIC path.
C9_DefaultsBypassWalk ==
    /\ (pc = "returned" /\ ret[1] \in {"DEFAULT_DYNAMIC", "DEMO"}) =>
           /\ ret[2] = default_flags
           /\ \A i \in 1..Len(asked) : asked[i] = PipelinePrompt
    /\ ~use_system =>
           /\ asked = <<>>
           /\ pc \in {"call", "returned"}
           /\ pc = "returned" => ret = <<"DEFAULT_DYNAMIC", default_flags, "default_flags">>
    /\ (\E i \in 1..Len(asked) : asked[i] # PipelinePrompt) =>
           chosen_pipeline = "CUSTOM_DYNAMIC"

\* the demo pipeline was chosen after a rejected line
C9_Witness ==
    /\ pc = "returned"
    /\ ret[1] = "DEMO"
    /\ Len(asked) = 2

(***************************************************************************)
(* Properties of the Paragraph Filter Stage.                               *)
(***************************************************************************)
FilterReturned == out # <<>>

AllParagraphFlagsOff ==
    /\ ~arg.paragraph_flags.remove_title_page
    /\ ~arg.paragraph_flags.remove_bibliography
    /\ ~arg.paragraph_flags.remove_headings
    /\ ~arg.paragraph_flags.remove_tables_and_figures

AllParagraphFlagsOn ==
    /\ arg.paragraph_flags.remove_title_page
    /\ arg.paragraph_flags.remove_bibliography
    /\ arg.paragraph_flags.remove_headings
    /\ arg.paragraph_flags.remove_tables_and_figures

\* C5: with the four paragraph flags off the Filter Stage returns the paragraph
\* sequence it was given, calls no rule and reports nothing removed.
C5_FilterIdentity ==
    (FilterReturned /\ AllParagraphFlagsOff) =>
        /\ out[1].doc_paragraphs = arg.doc_paragraphs
        /\ out[1].calls = <<>>
        /\ out[1].removed_paragraphs = <<>>

\* a document with a title page, a heading, a caption and a bibliography passes through
C5_Witness ==
    /\ FilterReturned
    /\ AllParagraphFlagsOff
    /\ Len(arg.doc_paragraphs) = 4
    /\ arg.doc_paragraphs[1].style = "Normal"
    /\ arg.doc_paragraphs[2].style = "Heading 1"
    /\ arg.doc_paragraphs[3].style = "Caption"
    /\ arg.doc_paragraphs[4].style = "Bibliography"

RuleNames ==
    {"remove_title", "remove_bibliography", "remove_headings", "remove_tables_figures"}

PositionsOf(name, ps) ==
    CASE name = "remove_title"          -> TitlePositions(ps)
      [] name = "remove_bibliography"   -> BibliographyPositions(ps)
      [] name = "remove_headings"       -> HeadingPositions(ps)
      [] name = "remove_tables_figures" -> TableFigurePositions(ps)

\* no paragraph of ps is matched by two rules
PredicatesDisjoint(ps) ==
    \A m, n \in RuleNames : m # n => PositionsOf(m, ps) \cap PositionsOf(n, ps) = {}

RECURSIVE SumOver(_, _)
SumOver(S, ps) ==
    IF S = {} THEN 0
    ELSE LET n == CHOOSE n \in S : TRUE
         IN  Cardinality(PositionsOf(n, ps)) + SumOver(S \ {n}, ps)

\* what is kept when the four rules run in the given order
RECURSIVE KeptInOrder(_, _)
KeptInOrder(order, ps) ==
    IF order = <<>> THEN ps
    ELSE KeptInOrder(Tail(order), Removal(ps, PositionsOf(Head(order), ps))[1])

RuleOrders == {o \in [1..4 -> RuleNames] : \A i, j \in 1..4 : i # j => o[i] # o[j]}

RemovedCountIsSum ==
    Len(out[1].removed_paragraphs) = SumOver(RuleNames, arg.doc_paragraphs)

TransformReturned == out # <<>> /\ ~out[1].raised

\* the number of whitespace-separated tokens of a text: the positions where a
\* token starts
TokenCount(text) ==
    Cardinality({i \in 1..Len(text) :
                    ~IsSpace(text[i]) /\ (i = 1 \/ IsSpace(text[i - 1]))})

\* the positions of the paragraphs with three or more tokens
SolidPositions(ps) == {i \in 1..Len(ps) : TokenCount(ps[i].text) >= 3}

\* t is x without its leading and trailing whitespace
IsTrimOf(t, x) ==
    \E a, b \in 0..Len(x) :
        /\ a + b <= Len(x)
        /\ t = SubSeq(x, a + 1, Len(x) - b)
        /\ \A i \in 1..a : IsSpace(x[i])
        /\ \A i \in (Len(x) - b + 1)..Len(x) : IsSpace(x[i])
        /\ t = <<>> \/ (~IsSpace(t[1]) /\ ~IsSpace(t[Len(t)]))

AllTextFlagsOff ==
    /\ ~arg.text_flags.remove_stop_words
    /\ ~arg.text_flags.apply_lemmatization
    /\ ~arg.text_flags.apply_stemming
    /\ ~arg.text_flags.remove_punctuation

\* C3: whatever the text flags, the output of a call that returns has exactly
\* one record for each paragraph with three or more tokens, in order and with
\* that paragraph's style, and none for a paragraph with 0, 1 or 2 tokens; the
\* tokens are counted on the raw text, so a record stays even when the
\* transforms leave it fewer than three tokens.
C3_DegeneracyFilter ==
    TransformReturned =>
        LET solid == Pick(arg.doc_paragraphs, SolidPositions(arg.doc_paragraphs), 1)
            res == out[1].total_doc_corpora
        IN  /\ Len(res) = Len(solid)
            /\ \A k \in 1..Len(res) : res[k].style = solid[k].style

\* a three-token paragraph cut to two tokens by stop-word removal is in the
\* output, next to a two-token paragraph that is not
C3_Witness ==
    /\ TransformReturned
    /\ arg.text_flags.remove_stop_words
    /\ Len(arg.doc_paragraphs) = 2
    /\ arg.doc_paragraphs[1].text = <<"a", " ", "a">>
    /\ arg.doc_paragraphs[2].text = <<"d", "e", " ", "a", " ", "a">>
    /\ Len(out[1].total_doc_corpora) = 1
    /\ TokenCount(out[1].total_doc_corpora[1].text) = 2

\* C4: with the four text flags off the call returns, and its output is the
\* paragraphs with three or more tokens, in input order, each with its text
\* trimmed and its style unchanged.
C4_AllOffKeepsTrimmedText ==
    (out # <<>> /\ AllTextFlagsOff) =>
        LET solid == Pick(arg.doc_paragraphs, SolidPositions(arg.doc_paragraphs), 1)
            res == out[1].total_doc_corpora
        IN  /\ ~out[1].raised
            /\ Len(res) = Len(solid)
            /\ \A k \in 1..Len(res) :
                   /\ DOMAIN res[k] = {"text", "style"}
                   /\ IsTrimOf(res[k].text, solid[k].text)
                   /\ res[k].style = solid[k].style

\* a padded paragraph comes out trimmed, after a degenerate one that is dropped
C4_Witness ==
    /\ out # <<>>
    /\ AllTextFlagsOff
    /\ Len(arg.doc_paragraphs) = 2
    /\ arg.doc_paragraphs[1].text = <<" ", " ">>
    /\ arg.doc_paragraphs[2].text = <<" ", "a", " ", "a", " ", "a", "\n">>
    /\ out[1].total_doc_corpora =
           <<[text |-> <<"a", " ", "a", " ", "a">>, style |-> "Normal"]>>

(***************************************************************************)
(* Properties of the run.                                                  *)
(***************************************************************************)
SomeSourceUnparsable == \E i \in 1..Len(sources) : ~sources[i].parsable

\* C6: when some source file cannot be extracted, nothing is ever written to
\* the destination: the run never gets to transforming or loading, and no
\* document's result is built.
C6_ExtractionFailureWritesNothing ==
    SomeSourceUnparsable =>
        /\ dest_file = <<>>
        /\ epc \in {"extract", "extract_raised"}
        /\ corpora_total.documents = <<>>

\* document 2 of 3 failed after document 1 was extracted; document 3 is sound
C6_Witness ==
    /\ epc = "extract_raised"
    /\ Len(sources) = 3
    /\ sources[1].parsable /\ sources[1].paragraphs # <<>>
    /\ ~sources[2].parsable
    /\ sources[3].parsable /\ sources[3].paragraphs # <<>>
    /\ Len(extracted_data) = 1

\* the corpora of one extracted pair under the flags of the run
CorporaOf(pair) ==
    transform_paragraphs_from_doc(
        remove_paragraphs_from_doc(pair[1].paragraphs,
                                   flags.paragraph_flags).doc_paragraphs,
        flags.text_flags, stopwords_file).total_doc_corpora

\* C7: the result _transform builds carries the flags of the run as its
\* config, and once _transform has returned it has one entry per extracted
\* pair, in the order of the pairs, each with the pair's filename and the
\* corpora of that pair's document alone; what is written is this result.
C7_OneResultPerDocument ==
    /\ epc \in {"transform", "transform_raised", "done"} =>
           /\ corpora_total.config = flags
           /\ \A i \in 1..Len(corpora_total.documents) :
                  /\ corpora_total.documents[i].filename = extracted_data[i][2]
                  /\ corpora_total.documents[i].corpora = CorporaOf(extracted_data[i])
    /\ epc = "done" =>
           /\ Len(corpora_total.documents) = Len(sources)
           /\ \A i \in 1..Len(sources) :
                  /\ extracted_data[i][2] = FileName(i)
                  /\ extracted_data[i][1].paragraphs = sources[i].paragraphs
           /\ dest_file = <<encode(corpora_total)>>

\* two documents with different, non-empty corpora were written
C7_Witness ==
    /\ epc = "done"
    /\ Len(corpora_total.documents) = 2
    /\ corpora_total.documents[1].corpora # <<>>
    /\ corpora_total.documents[2].corpora # <<>>
    /\ corpora_total.documents[1].corpora # corpora_total.documents[2].corpora

\* the rules in the order of the Filter Stage, each with its flag
RuleSequence ==
    << <<"remove_title", "remove_title_page">>,
       <<"remove_bibliography", "remove_bibliography">>,
       <<"remove_headings", "remove_headings">>,
       <<"remove_tables_figures", "remove_tables_and_figures">> >>

\* the enabled rules, in that order
EnabledRules(paragraph_flags) ==
    LET on == SelectSeq(RuleSequence, LAMBDA r : paragraph_flags[r[2]])
    IN  [i \in 1..Len(on) |-> on[i][1]]

\* the rules of order applied one after the other, each to what the one before
\* kept, the removed paragraphs collected in that order
RECURSIVE Chain(_, _, _)
Chain(order, kept, removed) ==
    IF order = <<>>
    THEN [kept |-> kept, removed |-> removed]
    ELSE LET r == Removal(kept, PositionsOf(Head(order), kept))
         IN  Chain(Tail(order), r[1], removed \o r[2])

\* C11: the Filter Stage calls exactly its enabled rules, in the order title
\* page, bibliography, headings, tables/figures; each gets what the enabled rule
\* before it kept, and the removed list is what they removed, in that order.
C11_RulesComposeInFixedOrder ==
    FilterReturned =>
        LET order == EnabledRules(arg.paragraph_flags)
            want  == Chain(order, arg.doc_paragraphs, <<>>)
        IN  /\ out[1].calls = order
            /\ out[1].doc_paragraphs = want.kept
            /\ out[1].removed_paragraphs = want.removed

\* all four rules ran, and a later rule found less to remove than it would have
\* found in the original sequence
C11_Witness ==
    /\ FilterReturned
    /\ AllParagraphFlagsOn
    /\ Len(out[1].calls) = 4
    /\ out[1].removed_paragraphs # <<>>
    /\ Len(out[1].removed_paragraphs) < SumOver(RuleNames, arg.doc_paragraphs)

\* the transforms in the order of the Text Transform Stage, each with its flag
\* and the line printed when it runs
TransformSequence ==
    << <<"remove_stop_words", "removing stop words">>,
       <<"apply_lemmatization", "applying lemmatization">>,
       <<"apply_stemming", "applying stemming">>,
       <<"remove_punctuation", "removing punctuation">> >>

EnabledTransforms(text_flags) ==
    SelectSeq(TransformSequence, LAMBDA t : text_flags[t[1]])

TransformBy(name, text, stopwords) ==
    CASE name = "remove_stop_words"   -> remove_stop_words(text, stopwords)
      [] name = "apply_lemmatization" -> apply_lemmatization(text)
      [] name = "apply_stemming"      -> apply_stemming(text)
      [] name = "remove_punctuation"  -> remove_punctuation(text)

\* the transforms of order applied one after the other, each to the output of
\* the one before
RECURSIVE TransformChain(_, _, _)
TransformChain(order, text, stopwords) ==
    IF order = <<>>
    THEN text
    ELSE TransformChain(Tail(order),
                        TransformBy(Head(order)[1], text, stopwords), stopwords)

\* C12: for every paragraph that is not degenerate and every value of the text
\* flags, exactly the enabled transforms run, in the order stop-word removal,
\* lemmatization, stemming, punctuation removal; the first gets the trimmed
\* text, each later one the output of the one before, and the record holds the
\* last output.  A disabled transform does not run.
C12_TransformsChainInFixedOrder ==
    TransformReturned =>
        LET ps    == arg.doc_paragraphs
            solid == Pick(ps, SolidPositions(ps), 1)
            order == EnabledTransforms(arg.text_flags)
            res   == out[1].total_doc_corpora
        IN  /\ Len(res) = Len(solid)
            /\ Len(out[1].printed) = Len(solid)
            /\ \A k \in 1..Len(solid) :
                   /\ out[1].printed[k] = [i \in 1..Len(order) |-> order[i][2]]
                   /\ \E t0 \in {strip(solid[k].text)} :
                          /\ IsTrimOf(t0, solid[k].text)
                          /\ res[k].text =
                                 TransformChain(order, t0, arg.stopwords_json.content)

\* all four transforms ran on "a\na\nas": lemmatization turned "as" into "e"
\* before stemming could cut its "s"
C12_Witness ==
    /\ TransformReturned
    /\ Len(arg.doc_paragraphs) = 2
    /\ arg.doc_paragraphs[1].text = <<"d", "e", "s", " ", "a", " ", "a">>
    /\ arg.doc_paragraphs[2].text = <<"a", "\n", "a", "\n", "a", "s">>
    /\ Len(out[1].printed[2]) = 4
    /\ out[1].total_doc_corpora[1].text = <<"d", "e", " ", "a", " ", "a">>
    /\ out[1].total_doc_corpora[2].text = <<"a", " ", "a", " ", "e">>

\* C13: whatever text flags the stage is called with, it runs at most one of
\* lemmatization and stemming on a paragraph.
C13_AtMostOneOfLemmatizationAndStemming ==
    TransformReturned =>
        \A k \in 1..Len(out[1].printed) :
            ~ /\ "applying lemmatization" \in Range(out[1].printed[k])
              /\ "applying stemming" \in Range(out[1].printed[k])

\* the Text Transform Stage calls the run has made so far
StageCalls ==
    IF epc \in {"transform", "transform_raised", "done"}
    THEN Len(corpora_total.documents) + (IF epc = "transform_raised" THEN 1 ELSE 0)
    ELSE 0

\* C14: the run has three phases that do not interleave: no document is
\* filtered or transformed before every source is extracted, nothing is written
\* before every document is transformed, and the artifact is written at most
\* once, holding the complete result.
C14_ThreeStrictPhases ==
    /\ epc \in {"extract", "extract_raised"} =>
           /\ corpora_total.documents = <<>>
           /\ stopwords_opened = 0
           /\ dest_file = <<>>
    /\ epc \in {"transform", "transform_raised", "done"} =>
           /\ Len(extracted_data) = Len(sources)
           /\ \A i \in 1..Len(sources) : sources[i].parsable
    /\ epc \in {"transform", "transform_raised"} => dest_file = <<>>
    /\ Len(dest_file) <= 1
    /\ dest_file # <<>> =>
           /\ epc = "done"
           /\ Len(corpora_total.documents) = Len(sources)
           /\ dest_file[1] = encode(corpora_total)

\* three documents, the first of them with text, went through all three phases
C14_Witness ==
    /\ epc = "done"
    /\ Len(sources) = 3
    /\ Len(dest_file) = 1
    /\ Len(dest_file[1].json.documents) = 3
    /\ dest_file[1].json.documents[1].corpora # <<>>
    /\ dest_file[1].json.documents[3].corpora = <<>>

StopWordsMissing ==
    flags.text_flags.remove_stop_words /\ ~stopwords_file.readable

\* C15 as stated: when stop-word removal is requested and the stop-word file
\* cannot be opened, the run aborts before any document's result is built, and
\* nothing is written.
C15_MissingStopWordsAbortsRun ==
    StopWordsMissing =>
        /\ epc # "done"
        /\ dest_file = <<>>
        /\ corpora_total.documents = <<>>

\* C15 amended: when stop-word removal is requested, the stop-word file cannot
\* be opened and the batch has at least one document, the run aborts and
\* nothing is written; it aborts when the first document reaches the Text
\* Transform Stage, after every document was extracted and before any
\* document's result is built.  With an empty batch the file is never opened
\* and the empty result is written.
C15_MissingStopWordsAbortsNonEmptyRun ==
    StopWordsMissing =>
        /\ corpora_total.documents = <<>>
        /\ sources # <<>> => epc # "done" /\ dest_file = <<>>
        /\ epc = "transform_raised" =>
               /\ Len(extracted_data) = Len(sources)
               /\ stopwords_opened = 1
        /\ sources = <<>> =>
               /\ stopwords_opened = 0
               /\ epc # "transform_raised"
               /\ epc = "done" => dest_file = <<encode(corpora_total)>>

\* the run aborted on the first of three extracted documents
C15_Witness ==
    /\ StopWordsMissing
    /\ epc = "transform_raised"
    /\ Len(sources) = 3
    /\ Len(extracted_data) = 3
    /\ extracted_data[1][1].paragraphs # <<>>
    /\ dest_file = <<>>

\* C16 as stated: the stop-word list is loaded only when stop-word removal is
\* enabled, once per Text Transform Stage call and not per paragraph, and it is
\* loaded one time for the whole run.
C16_LoadedOnceForTheRun ==
    /\ stopwords_opened = (IF flags.text_flags.remove_stop_words
                           THEN StageCalls ELSE 0)
    /\ stopwords_opened <= 1

\* C16 amended: the stop-word list is loaded only when stop-word removal is
\* enabled, once per Text Transform Stage call and before the first paragraph
\* is examined, never once per paragraph; the run makes one such call per
\* document, so a run loads the list once per document, not one time.  The
\* list is not changed during the run and the same list serves every
\* paragraph of a call.
C16_LoadedOncePerStageCall ==
    /\ stopwords_opened = (IF flags.text_flags.remove_stop_words
                           THEN StageCalls ELSE 0)
    /\ \A i \in 1..Len(extracted_data) :
           LET kept == remove_paragraphs_from_doc(
                           extracted_data[i][1].paragraphs,
                           flags.paragraph_flags).doc_paragraphs
               call == transform_paragraphs_from_doc(kept, flags.text_flags,
                                                     stopwords_file)
               solid == Pick(kept, SolidPositions(kept), 1)
           IN  /\ call.opened = (IF flags.text_flags.remove_stop_words THEN 1 ELSE 0)
               /\ call.raised => call.printed = <<>> /\ call.total_doc_corpora = <<>>
               /\ ~call.raised =>
                      \A k \in 1..Len(solid) :
                          call.total_doc_corpora[k].text =
                              TransformChain(EnabledTransforms(flags.text_flags),
                                             strip(solid[k].text),
                                             stopwords_file.content)

\* a run of two documents with several paragraphs each opened the file twice
C16_Witness ==
    /\ epc = "done"
    /\ flags.text_flags.remove_stop_words
    /\ Len(sources) = 2
    /\ Len(corpora_total.documents[1].corpora) >= 2
    /\ Len(corpora_total.documents[2].corpora) >= 2
    /\ stopwords_opened = 2

AllFlagContainers ==
    {FlagContainer(ParagraphFlags(p), TextFlags(t)) :
        p \in AllParagraphFlags, t \in AllTextFlags}

WalkOrder == TextFlagKeys \o ParagraphFlagKeys

AnswerKeys == [i \in 1..Len(answers) |-> answers[i][1]]

\* apply_lemmatization is skipped once apply_stemming was answered with yes
SkippedInWalk(k) ==
    /\ k = "apply_lemmatization"
    /\ \E i \in 1..Len(answers) : answers[i] = <<"apply_stemming", TRUE>>

VisitedWithAnswer == SelectSeq(WalkOrder, LAMBDA k : ~SkippedInWalk(k))

FlagValue(fl, k) ==
    IF k \in Range(TextFlagKeys) THEN fl.text_flags[k] ELSE fl.paragraph_flags[k]

\* a sequence without the immediate repetitions of its elements
RECURSIVE Dedup(_)
Dedup(q) ==
    IF Len(q) <= 1 THEN q
    ELSE IF q[1] = q[2] THEN Dedup(Tail(q))
    ELSE <<q[1]>> \o Dedup(Tail(q))

\* C19: in the CUSTOM_DYNAMIC walk the flags are visited in the order of the
\* text flags' fields followed by the paragraph flags' fields, each once; every
\* flag except a skipped apply_lemmatization is asked and gets exactly one
\* accepted answer, y or Y for true and n or N for false, and the returned
\* container holds that answer for it, whatever its default was; a skipped
\* apply_lemmatization is false.
C19_WalkVisitsEveryFlagOnce ==
    /\ [](pc \in {"configure_flag", "returned"} =>
            /\ Len(answers) <= Len(VisitedWithAnswer)
            /\ AnswerKeys = SubSeq(VisitedWithAnswer, 1, Len(answers))
            /\ pc = "configure_flag" =>
                   /\ flag_dict[key_idx][1] = VisitedWithAnswer[Len(answers) + 1]
                   /\ Dedup(asked) =
                          <<PipelinePrompt>>
                          \o [i \in 1..(Len(answers) + 1) |->
                                 specific_question(VisitedWithAnswer[i])]
            /\ ReturnedCustom =>
                   /\ AnswerKeys = VisitedWithAnswer
                   /\ Dedup(asked) =
                          <<PipelinePrompt>>
                          \o [i \in 1..Len(answers) |->
                                 specific_question(answers[i][1])]
                   /\ \A i \in 1..Len(answers) :
                          FlagValue(ret[2], answers[i][1]) = answers[i][2]
                   /\ \A k \in Range(WalkOrder) :
                          SkippedInWalk(k) => ~FlagValue(ret[2], k))
    /\ [][ IF pc = "configure_flag" /\ line' \in {"y", "n", "Y", "N"}
           THEN answers' = Append(answers, <<flag_dict[key_idx][1],
                                            line' \in {"y", "Y"}>>)
           ELSE answers' = answers
         ]_vars

\* every flag was asked and answered against its default
C19_Witness ==
    /\ ReturnedCustom
    /\ Len(answers) = Len(WalkOrder)
    /\ invalid = MaxInvalid
    /\ \A k \in Range(WalkOrder) : FlagValue(ret[2], k) # FlagValue(default_flags, k)
====
